---- MODULE Spec2Model ----
(***************************************************************************)
(* Video library: the offline indexer (build-videos manifest builder,      *)
(* src/unnamed/part_000) and the browser viewer (src/app.js).              *)
(*                                                                         *)
(* Strings are sequences of one-character tokens so that trim, extname,    *)
(* toLowerCase, the leading-digit regexp and the "/" join are computed.    *)
(* The tokens "c1", "c2", "c20" stand for the circled digits U+2460,       *)
(* U+2461, U+2473 and "c21" for U+3251 (circled 21, outside the range).    *)
(***************************************************************************)
EXTENDS Integers, Sequences, FiniteSets, TLC

VARIABLES
    \* ---- file system seen by the indexer
    rootKind,        \* what fs.stat(videosDir) finds: "dir", "file" or "absent"
    present,         \* the paths that exist below videosDir
    listing,         \* the order in which fs.readdir hands out names
    \* ---- indexer process
    pc,              \* position in main()
    rootNode,        \* result of buildNode(videosDir)
    manifestFile,    \* site/data/videos.json on disk
    wroteManifest,   \* this run called fs.writeFile successfully
    exitCode,        \* process.exitCode
    runs,            \* number of indexer runs started
    prevManifest,    \* the output file as the previous run left it
    \* ---- viewer (one page load)
    vpc,             \* position in init()
    localStorageItem,\* localStorage["learning:completedVideos"]
    categories,      \* state.categories
    selectedCategoryIndex,
    selectedVideo,
    openPaths,
    completedVideos,
    totalVideos,
    validVideoPaths,
    treeView,        \* elements.tree: the rendered <details>/leaf elements
    progressView,    \* elements.progressFill / progressText / progressCount
    setItemCalls,    \* localStorage.setItem calls made by the last handler
    lastOp           \* the handler that ran last, with its arguments

fsVars == <<rootKind, present, listing>>
indexerVars == <<pc, rootNode, manifestFile, wroteManifest, exitCode, runs, prevManifest>>
viewerVars == <<vpc, localStorageItem, categories, selectedCategoryIndex, selectedVideo,
                openPaths, completedVideos, totalVideos, validVideoPaths, treeView,
                progressView, setItemCalls, lastOp>>
vars == <<fsVars, indexerVars, viewerVars>>

----------------------------------------------------------------------------
(* Bounds of the model *)

\* how many times the indexer is run over the same directory contents
MaxRuns == 2

\* how many files the library the viewer shows holds at most
MaxVideos == 3

\* how many entries the stored completion list holds when the page loads
MaxStored == 2

\* the largest totalVideos and completed-set size given to updateProgressUI
MaxTotal == 10

MaxCompleted == 12

----------------------------------------------------------------------------
(* Generic helpers *)

Null == [type |-> "null"]

Last(s) == s[Len(s)]

Front(s) == SubSeq(s, 1, Len(s) - 1)

RECURSIVE Flatten(_)
Flatten(ss) == IF ss = <<>> THEN <<>> ELSE Head(ss) \o Flatten(Tail(ss))

RECURSIVE SumSeq(_)
SumSeq(s) == IF s = <<>> THEN 0 ELSE Head(s) + SumSeq(Tail(s))

Range(s) == {s[i] : i \in 1..Len(s)}

Reverse(s) == [i \in 1..Len(s) |-> s[Len(s) + 1 - i]]

----------------------------------------------------------------------------
(* Characters *)

AsciiDigits == {"0", "1", "2", "3", "4", "5", "6", "7", "8", "9"}

DigitValue(c) ==
    CASE c = "0" -> 0 [] c = "1" -> 1 [] c = "2" -> 2 [] c = "3" -> 3 [] c = "4" -> 4
      [] c = "5" -> 5 [] c = "6" -> 6 [] c = "7" -> 7 [] c = "8" -> 8 [] c = "9" -> 9

\* String.prototype.codePointAt for the characters the model uses
CodePointAt(c) ==
    CASE c = "c1" -> 9312          \* U+2460
      [] c = "c2" -> 9313          \* U+2461
      [] c = "c20" -> 9331         \* U+2473
      [] c = "c21" -> 12881        \* U+3251
      [] c = " " -> 32
      [] c = "." -> 46
      [] c = "/" -> 47
      [] c \in AsciiDigits -> 48 + DigitValue(c)
      [] c = "A" -> 65 [] c = "B" -> 66 [] c = "M" -> 77 [] c = "P" -> 80
      [] c = "a" -> 97 [] c = "b" -> 98 [] c = "d" -> 100 [] c = "e" -> 101
      [] c = "h" -> 104 [] c = "i" -> 105 [] c = "m" -> 109 [] c = "n" -> 110
      [] c = "o" -> 111 [] c = "p" -> 112 [] c = "s" -> 115 [] c = "t" -> 116
      [] c = "v" -> 118 [] c = "x" -> 120

\* String.prototype.toLowerCase, one character
LowerChar(c) ==
    CASE c = "A" -> "a" [] c = "B" -> "b" [] c = "M" -> "m" [] c = "P" -> "p"
      [] OTHER -> c

ToLowerCase(s) == [i \in 1..Len(s) |-> LowerChar(s[i])]

RECURSIVE TrimStart(_)
TrimStart(s) == IF s # <<>> /\ Head(s) = " " THEN TrimStart(Tail(s)) ELSE s

\* String.prototype.trim
Trim(s) == Reverse(TrimStart(Reverse(TrimStart(s))))

----------------------------------------------------------------------------
(* JavaScript numbers as far as compareEntries needs them: finite integers, *)
(* the two infinities and NaN.                                              *)

Num(n) == [k |-> "num", v |-> n]

PositiveInfinity == [k |-> "inf", v |-> 0]

NegativeInfinity == [k |-> "-inf", v |-> 0]

NaN == [k |-> "nan", v |-> 0]

\* a - b
Minus(a, b) ==
    CASE a.k = "num" /\ b.k = "num" -> Num(a.v - b.v)
      [] a.k = "nan" \/ b.k = "nan" -> NaN
      [] a.k = "num" -> IF b.k = "inf" THEN NegativeInfinity ELSE PositiveInfinity
      [] b.k = "num" -> a
      [] a.k = b.k -> NaN
      [] OTHER -> a

\* x !== 0
NotStrictlyZero(x) == ~(x.k = "num" /\ x.v = 0)

\* x < 0, false for NaN
IsNegative(x) == (x.k = "num" /\ x.v < 0) \/ x.k = "-inf"

----------------------------------------------------------------------------
(* Indexer: ordering *)

CircledFirst == 9312

CircledLast == 9331

CircledBase == 9311

RECURSIVE LeadingDigits(_)
\* the match of /^(\d+)/
LeadingDigits(s) ==
    IF s # <<>> /\ Head(s) \in AsciiDigits
    THEN <<Head(s)>> \o LeadingDigits(Tail(s))
    ELSE <<>>

RECURSIVE DecimalValue(_)
\* Number("<digits>")
DecimalValue(ds) ==
    IF ds = <<>> THEN 0 ELSE 10 * DecimalValue(Front(ds)) + DigitValue(Last(ds))

getLeadingNumberWeight(name) ==
    IF name = <<>> THEN PositiveInfinity
    ELSE LET trimmed == Trim(name) IN
      IF trimmed = <<>> THEN PositiveInfinity
      ELSE LET firstCode == CodePointAt(trimmed[1])
               match == LeadingDigits(trimmed)
           IN IF firstCode >= CircledFirst /\ firstCode <= CircledLast
              THEN Num(firstCode - CircledBase)
              ELSE IF match # <<>> THEN Num(DecimalValue(match))
              ELSE PositiveInfinity

(* Intl.Collator("ja-JP-u-nu-latn", {numeric: true, sensitivity: "base"}):  *)
(* primary-strength comparison, so letter case is ignored; a run of ASCII   *)
(* digits is one element compared by its value; space and punctuation sort  *)
(* before numbers, numbers before the circled digits (which are not decimal *)
(* digits and so join no run), and these before letters.                    *)
PrimaryWeight(c) ==
    CASE c = " " -> 1
      [] c = "." -> 2
      [] c = "/" -> 3
      [] c = "c1" -> 5001 [] c = "c2" -> 5002 [] c = "c20" -> 5020 [] c = "c21" -> 5021
      [] OTHER -> 10000 + CodePointAt(LowerChar(c))

RECURSIVE CollationKey(_)
CollationKey(s) ==
    IF s = <<>> THEN <<>>
    ELSE IF Head(s) \in AsciiDigits
         THEN LET run == LeadingDigits(s)
              IN <<1000 + DecimalValue(run)>> \o CollationKey(SubSeq(s, Len(run) + 1, Len(s)))
         ELSE <<PrimaryWeight(Head(s))>> \o CollationKey(Tail(s))

RECURSIVE LexCompare(_, _)
LexCompare(k1, k2) ==
    CASE k1 = <<>> /\ k2 = <<>> -> 0
      [] k1 = <<>> -> -1
      [] k2 = <<>> -> 1
      [] Head(k1) < Head(k2) -> -1
      [] Head(k1) > Head(k2) -> 1
      [] OTHER -> LexCompare(Tail(k1), Tail(k2))

collatorCompare(a, b) == LexCompare(CollationKey(a), CollationKey(b))

compareEntries(a, b) ==
    LET weightDiff == Minus(getLeadingNumberWeight(a.name), getLeadingNumberWeight(b.name))
    IN IF NotStrictlyZero(weightDiff)
       THEN weightDiff
       ELSE Num(collatorCompare(a.name, b.name))

RECURSIVE SortInsert(_, _)
\* x goes before the first element it compares below (comparator result < 0;
\* a NaN result is not below, Array.prototype.sort reads it as +0)
SortInsert(sorted, x) ==
    IF sorted = <<>> THEN <<x>>
    ELSE IF IsNegative(compareEntries(x, Head(sorted)))
         THEN <<x>> \o sorted
         ELSE <<Head(sorted)>> \o SortInsert(Tail(sorted), x)

RECURSIVE SortEntries(_)
\* children.sort(compareEntries): Array.prototype.sort is stable
SortEntries(s) ==
    IF s = <<>> THEN <<>> ELSE SortInsert(SortEntries(Front(s)), Last(s))

----------------------------------------------------------------------------
(* Indexer: the directory tree it walks *)

NameVideos == <<"v", "i", "d", "e", "o", "s">>

\* videosDir, as path segments below the repository root
VideosDir == <<NameVideos>>

Mp4(stem) == stem \o <<".", "m", "p", "4">>

\* candidate directories and files; a file system holds a parent-closed subset
DirPaths ==
    { VideosDir \o <<<<"c1", "a">>>>,
      VideosDir \o <<<<"c1", "a">>, <<"s">>>>,
      VideosDir \o <<<<"c1", "a">>, <<"s">>, <<"t">>>>,
      VideosDir \o <<<<"1", "b">>>>,
      VideosDir \o <<<<"1", "B">>>>,
      VideosDir \o <<<<"b">>>>,
      VideosDir \o <<<<"b">>, Mp4(<<"v">>)>>,
      VideosDir \o <<<<".", "h">>>> }

FilePaths ==
    { VideosDir \o <<<<"c1", "a">>, Mp4(<<"2">>)>>,
      VideosDir \o <<<<"c1", "a">>, <<"1", "0", ".", "M", "P", "4">>>>,
      VideosDir \o <<<<"c1", "a">>, <<"s">>, Mp4(<<"b">>)>>,
      VideosDir \o <<<<"c1", "a">>, <<"s">>, <<"t">>, Mp4(<<"a">>)>>,
      VideosDir \o <<<<"1", "b">>, Mp4(<<" ", "3">>)>>,
      VideosDir \o <<<<"b">>, Mp4(<<"v">>), <<"a", ".", "M", "P", "4">>>>,
      VideosDir \o <<<<"b">>, <<"n", ".", "t", "x", "t">>>>,
      VideosDir \o <<Mp4(<<"a">>)>>,
      VideosDir \o <<<<".", "h">>, Mp4(<<"a">>)>> }

CandPaths == DirPaths \cup FilePaths

ChildrenOf(p, universe) == {q \in universe : Len(q) = Len(p) + 1 /\ Front(q) = p}

RECURSIVE SubtreeSets(_, _), Combine(_, _)
\* the parent-closed sets of paths of universe that hold p
SubtreeSets(p, universe) ==
    {{p} \cup u : u \in Combine(ChildrenOf(p, universe), universe)}

Combine(cs, universe) ==
    IF cs = {} THEN {{}}
    ELSE LET c == CHOOSE x \in cs : TRUE
         IN {a \cup b : a \in ({{}} \cup SubtreeSets(c, universe)),
                        b \in Combine(cs \ {c}, universe)}

\* the directory contents the indexer is run on
PresentSets == Combine(ChildrenOf(VideosDir, CandPaths), CandPaths)

\* every name of the candidates, in one order and in the opposite one:
\* fs.readdir promises no order
NamePool ==
    << <<"b">>, Mp4(<<"a">>), <<"1", "B">>, <<"1", "b">>, <<"c1", "a">>, <<".", "h">>,
       <<"1", "0", ".", "M", "P", "4">>, Mp4(<<"2">>), <<"t">>, <<"s">>, Mp4(<<"b">>),
       Mp4(<<" ", "3">>), <<"n", ".", "t", "x", "t">>, Mp4(<<"v">>),
       <<"a", ".", "M", "P", "4">> >>

ListingOrders == {NamePool, Reverse(NamePool)}

\* fs.stat(fullPath): "dir", "file" or "absent" (stat throws)
Stat(fullPath) ==
    IF fullPath = VideosDir THEN rootKind
    ELSE IF fullPath \notin present THEN "absent"
    ELSE IF fullPath \in DirPaths THEN "dir" ELSE "file"

\* stats.size
StatSize(fullPath) == Len(Last(fullPath))

\* fs.readdir(fullPath): the names below fullPath, in listing order
ReadDir(fullPath) ==
    SelectSeq(listing, LAMBDA n : Append(fullPath, n) \in present)

----------------------------------------------------------------------------
(* Indexer: buildNode *)

RECURSIVE Join(_, _)
\* segments.join(sep)
Join(segments, sep) ==
    CASE segments = <<>> -> <<>>
      [] Len(segments) = 1 -> Head(segments)
      [] OTHER -> Head(segments) \o <<sep>> \o Join(Tail(segments), sep)

\* mutant of StartsWithDot: dot-named entries are walked like the others
StartsWithDot_Never(name) == FALSE

\* entry.name.startsWith(".")
StartsWithDot(name) == name # <<>> /\ Head(name) = "."

\* the index of the last "." of name, 0 if there is none
LastDot(name) ==
    LET dots == {i \in 1..Len(name) : name[i] = "."}
    IN IF dots = {} THEN 0 ELSE CHOOSE i \in dots : \A j \in dots : j <= i

\* path.extname: from the last "." on, empty when the name has no "." or only
\* a leading one
ExtName(name) ==
    LET i == LastDot(name)
    IN IF i <= 1 THEN <<>> ELSE SubSeq(name, i, Len(name))

\* path.relative(videosDir, fullPath).split(path.sep).join("/")
Normalized(fullPath) == Join(Tail(fullPath), "/")

\* normalized ? `videos/${normalized}` : "videos"
ManifestPath(fullPath) ==
    IF Normalized(fullPath) # <<>>
    THEN NameVideos \o <<"/">> \o Normalized(fullPath)
    ELSE NameVideos

\* child.videoCount ?? 0
VideoCountOf(node) == IF "videoCount" \in DOMAIN node THEN node.videoCount ELSE 0

\* node.children ?? []
ChildrenOrEmpty(node) == IF "children" \in DOMAIN node THEN node.children ELSE <<>>

\* mutant of DirectoryNode: a directory without children yields no node
DirectoryNode_DropEmpty(fullPath, children) ==
    IF children = <<>> THEN Null
    ELSE [ type |-> "directory",
           name |-> Last(fullPath),
           path |-> ManifestPath(fullPath),
           videoCount |-> SumSeq([i \in 1..Len(children) |-> VideoCountOf(children[i])]),
           children |-> children ]

DirectoryNode(fullPath, children) ==
    [ type |-> "directory",
      name |-> Last(fullPath),
      path |-> ManifestPath(fullPath),
      videoCount |-> SumSeq([i \in 1..Len(children) |-> VideoCountOf(children[i])]),
      children |-> children ]

VideoNode(fullPath) ==
    [ type |-> "video",
      name |-> Last(fullPath),
      path |-> ManifestPath(fullPath),
      size |-> StatSize(fullPath),
      videoCount |-> 1 ]

IsMp4File(fullPath) ==
    Stat(fullPath) = "file" /\ ToLowerCase(ExtName(Last(fullPath))) = <<".", "m", "p", "4">>

RECURSIVE buildNode(_), BuildChildren(_, _)
buildNode(fullPath) ==
    IF Stat(fullPath) = "dir"
    THEN DirectoryNode(fullPath, SortEntries(BuildChildren(fullPath, ReadDir(fullPath))))
    ELSE IF IsMp4File(fullPath) THEN VideoNode(fullPath)
    ELSE Null

\* the loop over the entries of readdir, in listing order
BuildChildren(fullPath, entries) ==
    IF entries = <<>> THEN <<>>
    ELSE IF StartsWithDot(Head(entries))
         THEN BuildChildren(fullPath, Tail(entries))
         ELSE LET childNode == buildNode(Append(fullPath, Head(entries)))
              IN (IF childNode # Null THEN <<childNode>> ELSE <<>>)
                   \o BuildChildren(fullPath, Tail(entries))

----------------------------------------------------------------------------
(* Indexer: main *)

NoFile == [exists |-> FALSE, categories |-> <<>>]

\* the file written: generatedAt (the clock's reading) is left out
WrittenFile(cats) == [exists |-> TRUE, categories |-> cats]

\* ensureVideosDir: stat throws, or the root is no directory: main rejects and
\* the catch handler sets the exit code
EnsureVideosDir ==
    /\ pc = "ensureVideosDir"
    /\ IF Stat(VideosDir) = "dir"
       THEN pc' = "buildNode" /\ UNCHANGED exitCode
       ELSE pc' = "done" /\ exitCode' = 1
    /\ UNCHANGED <<fsVars, rootNode, manifestFile, wroteManifest, runs, prevManifest, viewerVars>>

\* const rootNode = await buildNode(videosDir); if (!rootNode) throw
BuildRoot ==
    /\ pc = "buildNode"
    /\ rootNode' = buildNode(VideosDir)
    /\ IF rootNode' = Null
       THEN pc' = "done" /\ exitCode' = 1
       ELSE pc' = "write" /\ UNCHANGED exitCode
    /\ UNCHANGED <<fsVars, manifestFile, wroteManifest, runs, prevManifest, viewerVars>>

\* mkdir, writeFile, console.log; either call may reject with an I/O error
WriteManifest ==
    /\ pc = "write"
    /\ \E ioOk \in BOOLEAN :
         IF ioOk
         THEN /\ manifestFile' = WrittenFile(ChildrenOrEmpty(rootNode))
              /\ wroteManifest' = TRUE
              /\ exitCode' = 0
         ELSE /\ exitCode' = 1
              /\ UNCHANGED <<manifestFile, wroteManifest>>
    /\ pc' = "done"
    /\ UNCHANGED <<fsVars, rootNode, runs, prevManifest, viewerVars>>

\* the script is started again over the same directory contents; readdir
\* hands the names out in another order
RunAgain ==
    /\ pc = "done"
    /\ runs < MaxRuns
    /\ runs' = runs + 1
    /\ listing' \in ListingOrders \ {listing}
    /\ prevManifest' = manifestFile
    /\ pc' = "ensureVideosDir"
    /\ rootNode' = Null
    /\ wroteManifest' = FALSE
    /\ exitCode' = 0
    /\ UNCHANGED <<rootKind, present, manifestFile, viewerVars>>

NoItem == [kind |-> "null", items |-> <<>>]

\* elements.tree before anything is rendered into it
NoTree == [kind |-> "blank", dirs |-> {}, open |-> {}, leaves |-> {}, complete |-> {}]

NoProgress == [fill |-> <<0, 1>>, text |-> "", count |-> <<0, 0>>]

ViewerIdle ==
    /\ vpc = "off"
    /\ localStorageItem = NoItem
    /\ categories = <<>>
    /\ selectedCategoryIndex = -1
    /\ selectedVideo = Null
    /\ openPaths = {}
    /\ completedVideos = <<>>
    /\ totalVideos = 0
    /\ validVideoPaths = {}
    /\ treeView = NoTree
    /\ progressView = NoProgress
    /\ setItemCalls = 0
    /\ lastOp = [op |-> "none"]

InitIndexer ==
    /\ rootKind \in {"dir", "file", "absent"}
    /\ present \in (IF rootKind = "dir" THEN PresentSets ELSE {{}})
    /\ listing \in ListingOrders
    /\ pc = "ensureVideosDir"
    /\ rootNode = Null
    /\ manifestFile = NoFile
    /\ wroteManifest = FALSE
    /\ exitCode = 0
    /\ runs = 1
    /\ prevManifest = NoFile
    /\ ViewerIdle

NextIndexer == EnsureVideosDir \/ BuildRoot \/ WriteManifest \/ RunAgain

SpecIndexer == InitIndexer /\ [][NextIndexer]_vars

----------------------------------------------------------------------------
(* Indexer: properties *)

RECURSIVE NodesOf(_)
\* every node of a manifest tree
NodesOf(node) ==
    {node} \cup UNION {NodesOf(c) : c \in Range(ChildrenOrEmpty(node))}

DirectoryNodesOf(node) == {n \in NodesOf(node) : n.type = "directory"}

Built == pc \in {"write", "done"} /\ rootNode # Null

WeightLeq(a, b) == b.k = "inf" \/ (a.k = "num" /\ b.k = "num" /\ a.v <= b.v)

\* the order the ordering rule asks of one sibling list
OrderedSiblings(children) ==
    \A i, j \in 1..Len(children) :
        i < j =>
          LET wi == getLeadingNumberWeight(children[i].name)
              wj == getLeadingNumberWeight(children[j].name)
          IN /\ WeightLeq(wi, wj)
             /\ wi = wj => collatorCompare(children[i].name, children[j].name) <= 0

\* C1: every sibling list of the built tree is ascending by leading-number
\* weight, and entries of equal weight (the same number, or no leading marker
\* on either) follow the collator's order of their names.
C1_SiblingsOrdered ==
    Built => \A d \in DirectoryNodesOf(rootNode) : OrderedSiblings(d.children)

\* the directories the walk reaches: no segment below the root starts with "."
\* a name whose first character is a full stop
DotNamed(name) == Len(name) >= 1 /\ name[1] = "."

VisibleDirs ==
    {VideosDir} \cup
    {p \in present \cap DirPaths : \A i \in 2..Len(p) : ~DotNamed(p[i])}

IsPrefix(p, q) == Len(p) <= Len(q) /\ SubSeq(q, 1, Len(p)) = p

\* a name that ends in ".mp4" in any letter case
EndsInMp4(name) ==
    /\ Len(name) > 4
    /\ ToLowerCase(SubSeq(name, Len(name) - 3, Len(name))) = <<".", "m", "p", "4">>

\* the .mp4 files below directory p, leaving out what lies at or below a
\* name that starts with "."
Mp4Below(p) ==
    {q \in present \cap FilePaths :
        /\ IsPrefix(p, q) /\ Len(q) > Len(p)
        /\ \A i \in (Len(p) + 1)..Len(q) : ~DotNamed(q[i])
        /\ EndsInMp4(Last(q))}

\* C2: the videoCount of every Directory node is the number of .mp4 files
\* (any letter case) in its subtree outside dot-named entries; it is the sum
\* of its children's videoCount, and every Video node's videoCount is 1.
C2_VideoCount ==
    Built =>
      \A n \in NodesOf(rootNode) :
        IF n.type = "directory"
        THEN /\ \E p \in VisibleDirs :
                  n.path = ManifestPath(p) /\ n.videoCount = Cardinality(Mp4Below(p))
             /\ n.videoCount = SumSeq([i \in 1..Len(n.children) |-> n.children[i].videoCount])
        ELSE n.type = "video" /\ n.videoCount = 1

\* C2 witness: a finished build that counted videos two levels down, beside a
\* hidden video, an upper-case extension, a directory named like a video and
\* a file that is no video
C2_Witness ==
    /\ pc = "done" /\ wroteManifest
    /\ rootNode.videoCount = 4
    /\ VideosDir \o <<<<".", "h">>, Mp4(<<"a">>)>> \in present
    /\ VideosDir \o <<<<"b">>, Mp4(<<"v">>), <<"a", ".", "M", "P", "4">>>> \in present
    /\ VideosDir \o <<<<"b">>, <<"n", ".", "t", "x", "t">>>> \in present
    /\ VideosDir \o <<<<"c1", "a">>, <<"s">>, <<"t">>, Mp4(<<"a">>)>> \in present

RootIsEmptyDir == rootKind = "dir" /\ ReadDir(VideosDir) = <<>>

\* C3 as stated: an existing root with zero entries ends the run in failure
\* with no manifest written, and a manifest is written only on success.
C3_EmptyRootFails ==
    /\ (pc = "done" /\ RootIsEmptyDir) => (exitCode # 0 /\ ~wroteManifest)
    /\ wroteManifest => exitCode = 0

\* C3 amended: an empty root still yields a Directory node (no children); the
\* run fails only if writing the output fails, and otherwise reports success
\* with a manifest of zero categories. A missing or non-directory root fails
\* the run with nothing written; a manifest is written only on success.
C3_EmptyRootWritesEmptyManifest ==
    /\ (pc = "done" /\ RootIsEmptyDir) =>
          /\ rootNode # Null /\ rootNode.type = "directory" /\ rootNode.children = <<>>
          /\ exitCode = 0 <=> wroteManifest
          /\ wroteManifest => manifestFile = WrittenFile(<<>>)
    /\ (pc = "done" /\ rootKind # "dir") => (exitCode = 1 /\ ~wroteManifest)
    /\ wroteManifest => (pc = "done" /\ exitCode = 0)

\* C3 witness: a run over an empty root that ended with status 0 and wrote
\* the manifest
C3_Witness ==
    /\ pc = "done" /\ RootIsEmptyDir
    /\ exitCode = 0 /\ wroteManifest /\ manifestFile.categories = <<>>

\* C9: two runs over the same entries, listed in different orders, write the
\* same children sequence at every level.
C9_ListingOrderIndependent ==
    (pc = "done" /\ wroteManifest /\ prevManifest.exists) =>
        manifestFile.categories = prevManifest.categories

----------------------------------------------------------------------------
(* Viewer: completion store *)

RECURSIVE Dedupe(_)
\* new Set(array): first occurrences, in order
Dedupe(s) ==
    IF s = <<>> THEN <<>>
    ELSE LET front == Dedupe(Front(s))
         IN IF Last(s) \in Range(front) THEN front ELSE Append(front, Last(s))

\* loadCompletedVideos: the set restored from the stored item. A missing or
\* empty item, text that JSON.parse rejects and JSON that is no array all
\* give the empty set.
loadCompletedVideos(item) ==
    IF item.kind \in {"null", "empty"} THEN <<>>
    ELSE IF item.kind = "garbage" THEN <<>>
    ELSE IF item.kind = "json-array" THEN Dedupe(item.items)
    ELSE <<>>

\* JSON.stringify(Array.from(state.completedVideos))
Serialized(completed) == [kind |-> "json-array", items |-> completed]

\* persistCompletedVideos: one setItem call. The storage is taken to accept
\* it; when setItem throws, the catch only logs a warning.
persistCompletedVideos(completed) ==
    /\ setItemCalls' = 1
    /\ localStorageItem' = Serialized(completed)

NoPersist == setItemCalls' = 0 /\ UNCHANGED localStorageItem

RECURSIVE Visit(_)
\* visit of collectVideoStats
Visit(node) ==
    IF node = Null THEN [total |-> 0, paths |-> {}]
    ELSE IF node.type = "video"
         THEN [total |-> 1, paths |-> IF node.path # <<>> THEN {node.path} ELSE {}]
         ELSE LET kids == ChildrenOrEmpty(node)
                  parts == [i \in 1..Len(kids) |-> Visit(kids[i])]
              IN [ total |-> SumSeq([i \in 1..Len(kids) |-> parts[i].total]),
                   paths |-> UNION {parts[i].paths : i \in 1..Len(kids)} ]

collectVideoStats(cats) ==
    LET parts == [i \in 1..Len(cats) |-> Visit(cats[i])]
    IN [ total |-> SumSeq([i \in 1..Len(cats) |-> parts[i].total]),
         paths |-> UNION {parts[i].paths : i \in 1..Len(cats)} ]

\* mutant of PruneFilter: nothing is filtered out
PruneFilter_KeepAll(completed, valid) == completed

\* the filter of pruneCompletedVideos
PruneFilter(completed, valid) == SelectSeq(completed, LAMBDA path : path \in valid)

\* mutant of PruneChanged: the pruned set is saved on every load
PruneChanged_Always(completed, valid) == TRUE

\* filtered.length !== state.completedVideos.size
PruneChanged(completed, valid) == Len(PruneFilter(completed, valid)) # Len(completed)

----------------------------------------------------------------------------
(* Viewer: progress *)

\* mutant of ClampCompleted: the set size is shown as it is
ClampCompleted_None(size, total) == size

\* Math.min(state.completedVideos.size, total)
ClampCompleted(size, total) == IF size < total THEN size ELSE total

\* percent.toFixed(1) for percent = completed / total * 100, in tenths
PercentTenths(completed, total) == (2000 * completed + total) \div (2 * total)

updateProgressUI(size, totalVideosNow) ==
    LET total == totalVideosNow
        completed == ClampCompleted(size, total)
        tenths == PercentTenths(completed, total)
    IN [ fill |-> IF total = 0 THEN <<0, 1>> ELSE <<completed * 100, total>>,
         text |-> IF total = 0 THEN "0%"
                  ELSE ToString(tenths \div 10) \o "." \o ToString(tenths % 10) \o "%",
         count |-> <<completed, total>> ]

----------------------------------------------------------------------------
(* Viewer: selection and tree *)

RECURSIVE findFirstVideo(_, _, _), FirstInChildren(_, _, _)
findFirstVideo(node, breadcrumbs, directoryPaths) ==
    IF node = Null THEN Null
    ELSE IF node.type = "video"
         THEN [node |-> node, breadcrumbs |-> breadcrumbs, directories |-> directoryPaths]
         ELSE FirstInChildren(ChildrenOrEmpty(node), breadcrumbs, directoryPaths)

\* the loop over node.children
FirstInChildren(kids, breadcrumbs, directoryPaths) ==
    IF kids = <<>> THEN Null
    ELSE LET child == Head(kids) IN
      IF child.type = "directory"
      THEN LET result == findFirstVideo(child, Append(breadcrumbs, child.name),
                                        Append(directoryPaths, child.path))
           IN IF result # Null THEN result
              ELSE FirstInChildren(Tail(kids), breadcrumbs, directoryPaths)
      ELSE IF child.type = "video"
           THEN [ node |-> child, breadcrumbs |-> Append(breadcrumbs, child.name),
                  directories |-> directoryPaths ]
           ELSE FirstInChildren(Tail(kids), breadcrumbs, directoryPaths)

\* selection.directories ?? [], without the falsy entries
SelectionDirs(selection) ==
    IF selection = Null THEN {}
    ELSE {dirPath \in Range(selection.directories) : dirPath # <<>>}

\* mutant of NewOpenSet: the ancestors are added to the set already expanded
NewOpenSet_Merge(selection) == openPaths \cup SelectionDirs(selection)

\* the openSet selectCategory builds
NewOpenSet(selection) == SelectionDirs(selection)

\* renderTreeEmpty(message)
EmptyTree == [kind |-> "message", dirs |-> {}, open |-> {}, leaves |-> {}, complete |-> {}]

\* createVideoLeaf: the leaf element, with what its click listener captured
VideoLeaf(videoNode, breadcrumbs, directoryPaths, completed) ==
    [ dirs |-> {}, open |-> {},
      leaves |-> {[ node |-> videoNode, breadcrumbs |-> Append(breadcrumbs, videoNode.name),
                    directories |-> directoryPaths ]},
      complete |-> IF videoNode.path \in Range(completed) THEN {videoNode.path} ELSE {} ]

RECURSIVE createDirectoryGroup(_, _, _, _, _, _)
\* the <details> element of node and everything below it: the directories
\* rendered (with their ancestors), those rendered open, the leaves
createDirectoryGroup(node, breadcrumbs, depth, directoryPaths, dirSet, completed) ==
    LET nextDirectoryPaths == Append(directoryPaths, node.path)
        kids == ChildrenOrEmpty(node)
        parts == [i \in 1..Len(kids) |->
                    IF kids[i].type = "directory"
                    THEN createDirectoryGroup(kids[i], Append(breadcrumbs, kids[i].name),
                                              depth + 1, nextDirectoryPaths, dirSet, completed)
                    ELSE VideoLeaf(kids[i], breadcrumbs, nextDirectoryPaths, completed)]
    IN [ dirs |-> {[path |-> node.path, depth |-> depth, ancestors |-> directoryPaths]}
                    \cup UNION {parts[i].dirs : i \in 1..Len(kids)},
         open |-> (IF depth < 1 \/ node.path \in dirSet THEN {node.path} ELSE {})
                    \cup UNION {parts[i].open : i \in 1..Len(kids)},
         leaves |-> UNION {parts[i].leaves : i \in 1..Len(kids)},
         complete |-> UNION {parts[i].complete : i \in 1..Len(kids)} ]

\* renderTree, for the state it will read
renderTree(cats, index, dirSet, completed) ==
    IF index < 0 \/ index >= Len(cats) THEN EmptyTree
    ELSE LET category == cats[index + 1]
             kids == ChildrenOrEmpty(category)
             parts == [i \in 1..Len(kids) |->
                         IF kids[i].type = "directory"
                         THEN createDirectoryGroup(kids[i], <<category.name, kids[i].name>>,
                                                   0, <<>>, dirSet, completed)
                         ELSE VideoLeaf(kids[i], <<category.name>>, <<>>, completed)]
         IN [ kind |-> "tree",
              dirs |-> UNION {parts[i].dirs : i \in 1..Len(kids)},
              open |-> UNION {parts[i].open : i \in 1..Len(kids)},
              leaves |-> UNION {parts[i].leaves : i \in 1..Len(kids)},
              complete |-> UNION {parts[i].complete : i \in 1..Len(kids)} ]

\* selectCategory(index) on categories cats; the player and the category list
\* it also redraws hold no state of their own
selectCategory(cats, index, completed) ==
    IF index < 0 \/ index >= Len(cats)
    THEN UNCHANGED <<selectedCategoryIndex, selectedVideo, openPaths, treeView>>
    ELSE LET category == cats[index + 1]
             selection == findFirstVideo(category, <<category.name>>, <<>>)
             openSet == NewOpenSet(selection)
         IN /\ selectedCategoryIndex' = index
            /\ selectedVideo' = selection
            /\ openPaths' = openSet
            /\ treeView' = renderTree(cats, index, openSet, completed)

----------------------------------------------------------------------------
(* Viewer: init and the event handlers *)

\* init(), up to the await of fetch: loadCompletedVideos
StartViewer ==
    /\ pc = "done"
    /\ vpc = "start"
    /\ completedVideos' = loadCompletedVideos(localStorageItem)
    /\ vpc' = "fetching"
    /\ lastOp' = [op |-> "loadCompletedVideos"]
    /\ setItemCalls' = 0
    /\ UNCHANGED <<fsVars, indexerVars, localStorageItem, categories, selectedCategoryIndex,
                   selectedVideo, openPaths, totalVideos, validVideoPaths, treeView,
                   progressView>>

\* init(): the fetch fails, answers with an error status or with a body that
\* is no JSON; the catch renders the message
FetchFailed ==
    /\ vpc = "fetching"
    /\ treeView' = EmptyTree
    /\ vpc' = "failed"
    /\ lastOp' = [op |-> "initFailed"]
    /\ setItemCalls' = 0
    /\ UNCHANGED <<fsVars, indexerVars, localStorageItem, categories, selectedCategoryIndex,
                   selectedVideo, openPaths, completedVideos, totalVideos, validVideoPaths,
                   progressView>>

\* init(): the manifest arrives: stats, pruneCompletedVideos, updateProgressUI,
\* then the empty message or selectCategory(0)
FetchDone ==
    /\ vpc = "fetching"
    /\ manifestFile.exists
    /\ LET cats == manifestFile.categories
           stats == collectVideoStats(cats)
           filtered == PruneFilter(completedVideos, stats.paths)
       IN /\ categories' = cats
          /\ totalVideos' = stats.total
          /\ validVideoPaths' = stats.paths
          /\ IF PruneChanged(completedVideos, stats.paths)
             THEN completedVideos' = filtered /\ persistCompletedVideos(filtered)
             ELSE UNCHANGED completedVideos /\ NoPersist
          /\ progressView' = updateProgressUI(Len(completedVideos'), stats.total)
          /\ IF Len(cats) = 0
             THEN /\ treeView' = EmptyTree
                  /\ UNCHANGED <<selectedCategoryIndex, selectedVideo, openPaths>>
             ELSE selectCategory(cats, 0, completedVideos')
    /\ vpc' = "ready"
    /\ lastOp' = [op |-> "init", restored |-> completedVideos]
    /\ UNCHANGED <<fsVars, indexerVars>>

\* click on the button of category index
ClickCategory(index) ==
    /\ vpc = "ready"
    /\ selectCategory(categories, index, completedVideos)
    /\ lastOp' = [op |-> "selectCategory", index |-> index, openBefore |-> openPaths]
    /\ setItemCalls' = 0
    /\ UNCHANGED <<fsVars, indexerVars, vpc, localStorageItem, categories, completedVideos,
                   totalVideos, validVideoPaths, progressView>>

\* an element of the tree can be used when every <details> above it is open
Shown(ancestors) == Range(ancestors) \subseteq treeView.open

\* click on a video button: applyVideoSelection(selection, {focusPlayer: true})
applyVideoSelection(selection) ==
    /\ vpc = "ready"
    /\ IF selection = Null
       THEN UNCHANGED <<openPaths, selectedVideo, treeView>>
       ELSE /\ openPaths' = openPaths \cup SelectionDirs(selection)
            /\ selectedVideo' = selection
            /\ treeView' = renderTree(categories, selectedCategoryIndex, openPaths',
                                      completedVideos)
    /\ lastOp' = [op |-> "applyVideoSelection", selection |-> selection]
    /\ setItemCalls' = 0
    /\ UNCHANGED <<fsVars, indexerVars, vpc, localStorageItem, categories,
                   selectedCategoryIndex, completedVideos, totalVideos, validVideoPaths,
                   progressView>>

\* the user opens or closes the <details> of a directory; its toggle listener
\* records the new state in state.openPaths
ToggleDirectory(dir) ==
    /\ vpc = "ready"
    /\ LET nowOpen == dir.path \notin treeView.open
       IN /\ treeView' = [treeView EXCEPT !.open = IF nowOpen THEN @ \cup {dir.path}
                                                    ELSE @ \ {dir.path}]
          /\ openPaths' = IF dir.path = <<>> THEN openPaths
                          ELSE IF nowOpen THEN openPaths \cup {dir.path}
                          ELSE openPaths \ {dir.path}
          /\ lastOp' = [op |-> "toggle", path |-> dir.path, depth |-> dir.depth,
                        open |-> nowOpen]
    /\ setItemCalls' = 0
    /\ UNCHANGED <<fsVars, indexerVars, vpc, localStorageItem, categories,
                   selectedCategoryIndex, selectedVideo, completedVideos, totalVideos,
                   validVideoPaths, progressView>>

\* state.completedVideos.add(path) / .delete(path)
SetAdd(completed, path) ==
    IF path \in Range(completed) THEN completed ELSE Append(completed, path)

SetDelete(completed, path) == SelectSeq(completed, LAMBDA q : q # path)

\* mutant of ToggleAccepted: the membership test is missing
ToggleAccepted_NoMembership(path) == path # <<>>

\* the two early returns of toggleVideoCompletion
ToggleAccepted(path) == path # <<>> /\ path \in validVideoPaths

\* toggleVideoCompletion(path, isCompleted): called by the change listener of
\* a leaf's checkbox with the leaf's path, and a global function of the page
toggleVideoCompletion(path, isCompleted) ==
    /\ vpc = "ready"
    /\ IF ~ToggleAccepted(path)
       THEN /\ NoPersist
            /\ UNCHANGED <<completedVideos, progressView, treeView>>
       ELSE /\ completedVideos' = IF isCompleted THEN SetAdd(completedVideos, path)
                                  ELSE SetDelete(completedVideos, path)
            /\ persistCompletedVideos(completedVideos')
            /\ progressView' = updateProgressUI(Len(completedVideos'), totalVideos)
            /\ treeView' =
                 IF path \in {leaf.node.path : leaf \in treeView.leaves}
                 THEN [treeView EXCEPT !.complete = IF isCompleted THEN @ \cup {path}
                                                    ELSE @ \ {path}]
                 ELSE treeView
    /\ lastOp' = [op |-> "toggleVideoCompletion", path |-> path,
                  isCompleted |-> isCompleted, before |-> completedVideos]
    /\ UNCHANGED <<fsVars, indexerVars, vpc, categories, selectedCategoryIndex,
                   selectedVideo, openPaths, totalVideos, validVideoPaths>>

\* a video that an earlier manifest listed and the current one does not
StalePath == ManifestPath(VideosDir \o <<Mp4(<<"x">>)>>)

\* the paths toggleVideoCompletion is called with: the known videos, a stale
\* one, the empty string
TogglePaths == validVideoPaths \cup {StalePath, <<>>}

----------------------------------------------------------------------------
(* Viewer: specification *)

\* the directory trees the viewer's manifests are built from
ViewerPaths ==
    { VideosDir \o <<<<"c1", "a">>>>,
      VideosDir \o <<<<"c1", "a">>, Mp4(<<"2">>)>>,
      VideosDir \o <<<<"c1", "a">>, <<"s">>>>,
      VideosDir \o <<<<"c1", "a">>, <<"s">>, Mp4(<<"b">>)>>,
      VideosDir \o <<<<"c1", "a">>, <<"s">>, <<"t">>>>,
      VideosDir \o <<<<"c1", "a">>, <<"s">>, <<"t">>, Mp4(<<"a">>)>>,
      VideosDir \o <<Mp4(<<"a">>)>> }

ViewerPresentSets ==
    {S \in Combine(ChildrenOf(VideosDir, ViewerPaths), ViewerPaths) :
        Cardinality(S \cap FilePaths) <= MaxVideos}

RECURSIVE SeqsUpTo(_, _)
\* the sequences over S of length at most n
SeqsUpTo(S, n) ==
    IF n = 0 THEN {<<>>}
    ELSE LET shorter == SeqsUpTo(S, n - 1)
         IN shorter \cup {Append(q, x) : q \in shorter, x \in S}

\* what localStorage may hold when the page loads: nothing, the empty string,
\* text that is no JSON, JSON that is no array, or a list of paths, some of
\* them stale or repeated
StoredItems(paths) ==
    {[kind |-> k, items |-> <<>>] : k \in {"null", "empty", "garbage", "json-object"}}
      \cup {Serialized(q) : q \in SeqsUpTo(paths, MaxStored)}

\* the paths of the videos the viewer's manifests can list
ViewerVideoPaths == {ManifestPath(p) : p \in ViewerPaths \cap FilePaths}

\* the indexer is run on the library, then the page is loaded
InitViewer ==
    /\ rootKind = "dir"
    /\ present \in ViewerPresentSets
    /\ listing \in ListingOrders
    /\ pc = "ensureVideosDir"
    /\ rootNode = Null
    /\ manifestFile = NoFile
    /\ wroteManifest = FALSE
    /\ exitCode = 0
    /\ runs = 1
    /\ prevManifest = NoFile
    /\ vpc = "start"
    /\ localStorageItem \in StoredItems(ViewerVideoPaths)
    /\ categories = <<>>
    /\ selectedCategoryIndex = -1
    /\ selectedVideo = Null
    /\ openPaths = {}
    /\ completedVideos = <<>>
    /\ totalVideos = 0
    /\ validVideoPaths = {}
    /\ treeView = NoTree
    /\ progressView = NoProgress
    /\ setItemCalls = 0
    /\ lastOp = [op |-> "none"]

NextViewer ==
    \/ EnsureVideosDir
    \/ BuildRoot
    \/ WriteManifest
    \/ StartViewer
    \/ FetchFailed
    \/ FetchDone
    \/ \E index \in 0..(Len(categories) - 1) : ClickCategory(index)
    \/ \E leaf \in treeView.leaves : Shown(leaf.directories) /\ applyVideoSelection(leaf)
    \/ \E dir \in treeView.dirs : Shown(dir.ancestors) /\ ToggleDirectory(dir)
    \/ \E path \in TogglePaths, isCompleted \in BOOLEAN : toggleVideoCompletion(path, isCompleted)

SpecViewer == InitViewer /\ [][NextViewer]_vars

----------------------------------------------------------------------------
(* Viewer: updateProgressUI over every total and every completed-set size *)

\* a set of k paths, as the completed set holds them
PathsOfSize(k) == [i \in 1..k |-> ManifestPath(VideosDir \o <<Mp4([j \in 1..i |-> "a"])>>)]

InitProgress ==
    /\ rootKind = "absent"
    /\ present = {}
    /\ listing = NamePool
    /\ pc = "done"
    /\ rootNode = Null
    /\ manifestFile = NoFile
    /\ wroteManifest = FALSE
    /\ exitCode = 0
    /\ runs = 1
    /\ prevManifest = NoFile
    /\ vpc = "ready"
    /\ localStorageItem = NoItem
    /\ categories = <<>>
    /\ selectedCategoryIndex = -1
    /\ selectedVideo = Null
    /\ openPaths = {}
    /\ completedVideos \in {PathsOfSize(k) : k \in 0..MaxCompleted}
    /\ totalVideos \in 0..MaxTotal
    /\ validVideoPaths = {}
    /\ treeView = NoTree
    /\ progressView = NoProgress
    /\ setItemCalls = 0
    /\ lastOp = [op |-> "none"]

UpdateProgress ==
    /\ lastOp.op = "none"
    /\ progressView' = updateProgressUI(Len(completedVideos), totalVideos)
    /\ lastOp' = [op |-> "updateProgressUI"]
    /\ UNCHANGED <<fsVars, indexerVars, vpc, localStorageItem, categories,
                   selectedCategoryIndex, selectedVideo, openPaths, completedVideos,
                   totalVideos, validVideoPaths, treeView, setItemCalls>>

SpecProgress == InitProgress /\ [][UpdateProgress]_vars

----------------------------------------------------------------------------
(* Viewer: properties *)

\* a path the claim calls invalid: falsy, or no member of validVideoPaths
InvalidPath(path) == path = <<>> \/ path \notin validVideoPaths

\* C4: toggleVideoCompletion with a falsy or unknown path leaves the completed
\* set as it was, for either value of isCompleted, and writes nothing to the
\* store.
C4_InvalidToggleIgnored ==
    (lastOp.op = "toggleVideoCompletion" /\ InvalidPath(lastOp.path)) =>
        /\ completedVideos = lastOp.before
        /\ setItemCalls = 0

\* C4 witness: a stale path was toggled to completed while the set held a video
C4_Witness ==
    /\ lastOp.op = "toggleVideoCompletion"
    /\ lastOp.path = StalePath /\ lastOp.isCompleted
    /\ completedVideos # <<>>

\* C5: a successful load removes from the restored set exactly the paths that
\* are not valid, keeps the others, and writes the reduced set once if a path
\* was removed and not at all otherwise.
C5_PruneOnLoad ==
    lastOp.op = "init" =>
      LET kept == {path \in Range(lastOp.restored) : path \in validVideoPaths}
          removed == Range(lastOp.restored) \ validVideoPaths
      IN /\ Range(completedVideos) = kept
         /\ Len(completedVideos) = Cardinality(kept)
         /\ removed # {} => (setItemCalls = 1 /\ localStorageItem = Serialized(completedVideos))
         /\ removed = {} => setItemCalls = 0

\* C5 witness: a load that restored two paths, dropped one and kept the other
C5_Witness ==
    /\ lastOp.op = "init"
    /\ Len(lastOp.restored) = 2 /\ Len(completedVideos) = 1
    /\ setItemCalls = 1

\* C6: updateProgressUI shows completed = min(size, total), a percentage in
\* 0..100, "0%" and an empty bar for total 0, and 10 / 10 with "100.0%" for a
\* set of 12 paths and a total of 10.
C6_ProgressClamped ==
    lastOp.op = "updateProgressUI" =>
      LET size == Len(completedVideos)
          shown == progressView.count[1]
      IN /\ shown = (IF size < totalVideos THEN size ELSE totalVideos)
         /\ progressView.count[2] = totalVideos
         /\ shown <= totalVideos
         /\ progressView.fill[1] >= 0
         /\ progressView.fill[1] <= 100 * progressView.fill[2]
         /\ totalVideos = 0 => (progressView.text = "0%" /\ progressView.fill[1] = 0)
         /\ (totalVideos = 10 /\ size = 12) =>
               (progressView.count = <<10, 10>> /\ progressView.text = "100.0%")
         /\ (totalVideos = 3 /\ size = 2) => progressView.text = "66.7%"
         /\ (totalVideos = 8 /\ size = 1) => progressView.text = "12.5%"

\* C6 witness: 12 completed paths shown against a total of 10
C6_Witness ==
    /\ lastOp.op = "updateProgressUI"
    /\ totalVideos = 10 /\ Len(completedVideos) = 12
    /\ progressView.text = "100.0%"

RECURSIVE Preorder(_)
\* the nodes of a tree in depth-first order, children in manifest order
Preorder(node) ==
    LET kids == ChildrenOrEmpty(node)
    IN <<node>> \o Flatten([i \in 1..Len(kids) |-> Preorder(kids[i])])

VideosInOrder(node) == SelectSeq(Preorder(node), LAMBDA n : n.type = "video")

\* the directories below category that hold video
DirsAbove(category, video) ==
    {d.path : d \in {n \in DirectoryNodesOf(category) :
                        n.path # category.path /\ video \in NodesOf(n)}}

SelectedFirstVideoOf(index) ==
    LET category == categories[index + 1]
        videos == VideosInOrder(category)
    IN /\ selectedCategoryIndex = index
       /\ IF videos = <<>>
          THEN selectedVideo = Null /\ openPaths = {}
          ELSE /\ selectedVideo # Null
               /\ selectedVideo.node = Head(videos)
               /\ openPaths = DirsAbove(category, Head(videos))

\* C7: after selectCategory(index) the selected index is index, the selection
\* is the category's first video in depth-first order (none when it has no
\* video), and the expanded paths are exactly that video's ancestor
\* directories below the category.
C7_SelectCategory ==
    /\ lastOp.op = "selectCategory" => SelectedFirstVideoOf(lastOp.index)
    /\ (lastOp.op = "init" /\ categories # <<>>) => SelectedFirstVideoOf(0)

\* C7 witness: a category was selected while other directories were expanded,
\* and its first video lies two directories down
C7_Witness ==
    /\ lastOp.op = "selectCategory"
    /\ lastOp.openBefore \ openPaths # {}
    /\ selectedVideo # Null

\* C8: a directory the user has just opened or closed is shown in that state
\* by the re-render of applyVideoSelection on a video outside it.
C8_ToggleSurvivesRerender ==
    [][ ( /\ lastOp.op = "toggle"
          /\ lastOp'.op = "applyVideoSelection"
          /\ lastOp.path \notin Range(lastOp'.selection.directories) )
        => ((lastOp.path \in treeView'.open) <=> lastOp.open) ]_vars

\* C8 below depth 0: there the re-render does show the toggled state
C8_DeeperToggleSurvives ==
    [][ ( /\ lastOp.op = "toggle" /\ lastOp.depth >= 1
          /\ lastOp'.op = "applyVideoSelection"
          /\ lastOp.path \notin Range(lastOp'.selection.directories) )
        => ((lastOp.path \in treeView'.open) <=> lastOp.open) ]_vars

\* C10: once the manifest is loaded the completed set is a subset of
\* validVideoPaths, so its size never exceeds totalVideos.
C10_CompletedWithinValid ==
    vpc = "ready" =>
        /\ Range(completedVideos) \subseteq validVideoPaths
        /\ Len(completedVideos) <= totalVideos

\* C10 witness: the store held a stale path at load, every video is now
\* completed, and a stale path has just been toggled
C10_Witness ==
    /\ vpc = "ready"
    /\ lastOp.op = "toggleVideoCompletion" /\ lastOp.path = StalePath
    /\ totalVideos >= 2 /\ Len(completedVideos) = totalVideos

====
